---- MODULE Spec2Model ----
(***************************************************************************)
(* Weatherly-V2 backend (src/backend/server.js): push subscriptions bound  *)
(* to a location, the two-hour scheduler cycle and the fan-out delivery.   *)
(*                                                                         *)
(* Instants are minutes since an epoch that is a UTC midnight.  A time     *)
(* zone is its offset from UTC in minutes.  The MongoDB collection is a    *)
(* sequence of documents (the code creates no unique index, so uniqueness  *)
(* of endpoint is a property of the operations, not of the container).     *)
(* Each awaited call of a handler is one step; two handlers interleave at  *)
(* these steps: the scheduler cycle ("sched") and one registration         *)
(* request ("reg").                                                        *)
(***************************************************************************)
EXTENDS Integers, Sequences, FiniteSets, TLC

VARIABLES
    serverTz,    \* offset of the host's zone (Date#getHours, Date#setHours)
    hourCycle,   \* how the build renders midnight with hour12:false: "h23" or "h24"
    cityTz,      \* the zone the provider resolves the city to
    now,         \* the clock
    ticks,       \* number of clock advances so far
    timer,       \* instant at which the armed timer fires
    subs,        \* subscriptionsCollection: sequence of documents
    gone,        \* endpoints the push service answers 404/410 for
    transients,  \* number of transient send failures so far
    task,        \* the two handlers: position and locals
    regs,        \* number of POST /api/subscribe requests so far
    dels,        \* number of DELETE /api/subscribe requests so far
    cycles,      \* number of scheduler cycles started so far
    deleted,     \* the last DELETE request: its endpoint and HTTP status
    budget,      \* how many events of each kind the run may have
    dbFaults,    \* number of storage calls that failed so far
    delivered,   \* endpoints a send to which was ever accepted
    faultedCycle \* the last cycle in which the scheduler met a fault (0: none)

vars == <<serverTz, hourCycle, cityTz, now, ticks, timer, subs, gone, transients, task,
          regs, dels, cycles, deleted, budget, dbFaults, delivered, faultedCycle>>

----------------------------------------------------------------------------
(* Bounds of the model *)

MaxTicks == 1        \* clock advances
MaxRegs == 2         \* registration requests
MaxDels == 1         \* delete requests
MaxFaults == 1       \* deletes, expired endpoints, transient and storage failures together
MaxAlerts == 2       \* alerts in one provider response
MaxTransient == 1    \* transient send failures
MaxCycles == 1       \* scheduler cycles
CadenceTicks == 2    \* clock advances, when the cadence is followed
CadenceRegs == 1     \* registration requests, when the cadence is followed
CadenceCycles == 2   \* scheduler cycles, when the cadence is followed

\* A run with many requests around one cycle, and a run over several cycles.
RequestBudget ==
    [ticks |-> MaxTicks, regs |-> MaxRegs, dels |-> MaxDels,
     faults |-> MaxFaults, cycles |-> MaxCycles]
CadenceBudget ==
    [ticks |-> CadenceTicks, regs |-> CadenceRegs, dels |-> MaxDels,
     faults |-> MaxFaults, cycles |-> CadenceCycles]

HourMinutes == 60             \* minutes in an hour
TickMinutes == HourMinutes    \* the clock of the model advances by whole hours
Endpoints == {"e1", "e2"}
NoEndpoint == "none"          \* a request body without subscription.endpoint

\* Where the model starts: the host's zone, how its build renders midnight,
\* the zone of the subscribers' city and the instant the process starts at
\* (day 1, 13:00 UTC, ...).
Environments ==
    { [serverTz |-> 0,  hourCycle |-> "h23", cityTz |-> 0,
       start |-> 1440 + 13 * 60],
      [serverTz |-> 60, hourCycle |-> "h23", cityTz |-> 330,
       start |-> 1440 + 13 * 60],
      [serverTz |-> 0,  hourCycle |-> "h24", cityTz |-> 0,
       start |-> 1440 + 23 * 60] }

(* A location string is a sequence of characters. *)
LocA == <<"a", ",", "r", ",", "c">>
LocASpaced == <<"a", " ", ",", " ", "r", ",", "c">>
LocEmpty == <<>>
Undefined == <<"undefined">>  \* the request body has no location
RawLocations == {LocA, LocASpaced, LocEmpty, Undefined}

Null == 0 - 1                 \* lastNotified: null
NoField == 0 - 2              \* an hourly entry without local_hour

----------------------------------------------------------------------------
(* Dates *)

\* toLocaleString('en-US', {hour: '2-digit', hour12: false, timeZone}) parsed
\* with parseInt: the hour of the day in the zone; midnight is 24 under h24.
LocalHourIn(t, tz) ==
    LET h == ((t + tz) \div 60) % 24
    IN  IF h = 0 /\ hourCycle = "h24" THEN 24 ELSE h

\* getLocalHour(timezone) at instant t; an undefined timezone is the host's.
getLocalHour(t, tz) == LocalHourIn(t, tz)

\* Date#setHours(H, 0, 0, 0): the host-zone date of t at H o'clock (H >= 24
\* rolls into the following days).
SetHours(t, H) == ((t + serverTz) \div 1440) * 1440 + H * 60 - serverTz

calculateNextNotificationTime(t, tz) ==
    LET localHour == getLocalHour(t, tz)
        nextNotificationHour == localHour + (2 - (localHour % 2))
    IN  SetHours(t, nextNotificationHour)

\* scheduleTwoHourWeatherUpdates: delay in minutes to the first run.
minutesToNextUpdate(t) ==
    LET currentHour == ((t + serverTz) \div 60) % 24
        minutes == (t + serverTz) % 60
    IN  (120 - ((currentHour % 2) * 60 + minutes)) % 120

----------------------------------------------------------------------------
(* Strings *)

IsSpace(c) == c = " "

RECURSIVE DropSpaces(_)
DropSpaces(s) ==
    IF s # <<>> /\ IsSpace(Head(s)) THEN DropSpaces(Tail(s)) ELSE s

RECURSIVE SpacesThenComma(_)
SpacesThenComma(s) ==
    IF s = <<>> THEN FALSE
    ELSE IF Head(s) = "," THEN TRUE
    ELSE IF IsSpace(Head(s)) THEN SpacesThenComma(Tail(s))
    ELSE FALSE

\* location.replace(/\s*,\s*/g, ','): leftmost match first, each match as long
\* as it can be.
RECURSIVE NormalizeLocation(_)
NormalizeLocation(s) ==
    IF s = <<>> THEN <<>>
    ELSE IF SpacesThenComma(s)
         THEN <<",">> \o NormalizeLocation(DropSpaces(Tail(DropSpaces(s))))
         ELSE <<Head(s)>> \o NormalizeLocation(Tail(s))

\* location.split(',').length
RECURSIVE CountParts(_)
CountParts(s) ==
    IF s = <<>> THEN 1
    ELSE (IF Head(s) = "," THEN 1 ELSE 0) + CountParts(Tail(s))

----------------------------------------------------------------------------
(* The collection *)

Matching(e) == {i \in 1..Len(subs) : subs[i].endpoint = e}
FirstOf(S) == CHOOSE i \in S : \A j \in S : i <= j
RemoveAt(s, i) == SubSeq(s, 1, i - 1) \o SubSeq(s, i + 1, Len(s))

\* An insert in place of the upsert.
InsertOne(coll, doc) == Append(coll, doc)

\* updateOne({endpoint}, {$set: doc}, {upsert: true})
UpsertOne(coll, doc) ==
    LET m == {i \in 1..Len(coll) : coll[i].endpoint = doc.endpoint}
    IN  IF m = {} THEN Append(coll, doc)
        ELSE [coll EXCEPT ![FirstOf(m)] = doc]

\* A delete that removes nothing.
DeleteNone(coll, e) == coll

\* deleteOne({endpoint})
DeleteOne(coll, e) ==
    LET m == {i \in 1..Len(coll) : coll[i].endpoint = e}
    IN  IF m = {} THEN coll ELSE RemoveAt(coll, FirstOf(m))

\* find({location}).toArray()
FindByLocation(coll, loc) == SelectSeq(coll, LAMBDA d : d.location = loc)

\* updateMany({location}, {$set: {lastNotified, nextNotificationTime}})
UpdateMany(coll, loc, t, next) ==
    [i \in 1..Len(coll) |->
        IF coll[i].location = loc
        THEN [coll[i] EXCEPT !.lastNotified = t, !.nextNotificationTime = next]
        ELSE coll[i]]

Stored == {subs[i].endpoint : i \in 1..Len(subs)}

----------------------------------------------------------------------------
(* The weather provider (GET /api/weather/city, served by weatherRoutes.js) *)

\* The zone the provider resolves a location to (location.tz_id).
TzOf(loc) == cityTz

\* The hour of the day of instant t in zone tz, 0..23.
HourOfDay(t, tz) == ((t + tz) \div 60) % 24

NoEntry == [time |-> Null, local_hour |-> NoField]

\* forecast.forecastday[0].hour: one entry per hour of the UTC day of t; the
\* provider may or may not annotate each entry with its local hour.
DayHours(t, tz, annotated) ==
    [i \in 1..24 |->
        LET at == (t \div 1440) * 1440 + (i - 1) * 60
        IN  [time |-> at,
             local_hour |-> IF annotated THEN HourOfDay(at, tz) ELSE NoField]]

Without(hours, tz, h) == SelectSeq(hours, LAMBDA e : HourOfDay(e.time, tz) # h)

\* The responses the provider may give for loc at instant t: the hours of the
\* day, or these without the current or the next local hour; no alert or
\* MaxAlerts alerts, numbered in the order returned.
ProviderResponses(loc, t) ==
    LET tz == TzOf(loc)
        h == HourOfDay(t, tz)
    IN  { [tz |-> tz, hour |-> hrs, alerts |-> [i \in 1..n |-> i]] :
            hrs \in UNION { { DayHours(t, tz, a),
                              Without(DayHours(t, tz, a), tz, h),
                              Without(DayHours(t, tz, a), tz, (h + 1) % 24) } :
                            a \in BOOLEAN },
            n \in {0, MaxAlerts} }

\* fetchWeatherData throws before the request when the location has fewer
\* than three comma-separated parts (region.trim() of undefined).
Fetchable(loc) == CountParts(loc) >= 3

\* Array#find: the first entry satisfying the test, NoEntry for undefined.
FindHour(hours, P(_)) ==
    LET m == {i \in 1..Len(hours) : P(hours[i])}
    IN  IF m = {} THEN NoEntry ELSE hours[FirstOf(m)]

Covers(resp, t) ==
    LET h == HourOfDay(t, resp.tz)
    IN  /\ \E i \in 1..Len(resp.hour) : HourOfDay(resp.hour[i].time, resp.tz) = h
        /\ \E i \in 1..Len(resp.hour) :
              HourOfDay(resp.hour[i].time, resp.tz) = (h + 1) % 24

----------------------------------------------------------------------------
(* Notification payloads *)

\* formatHourOnly: toLocaleTimeString('en-US', {hour: 'numeric', hour12: true})
formatHourOnly(t, tz) ==
    LET h == HourOfDay(t, tz)
    IN  <<IF h % 12 = 0 THEN 12 ELSE h % 12, IF h < 12 THEN "AM" ELSE "PM">>

\* entry: the hourly entry the body is built from; alert: the alert it reports.
currentNotification(loc, entry, tz) ==
    [type |-> "current_weather", location |-> loc,
     time |-> formatHourOnly(entry.time, tz), entry |-> entry.time, alert |-> 0]

forecastNotification(loc, entry, tz) ==
    [type |-> "forecast", location |-> loc,
     time |-> formatHourOnly(entry.time, tz), entry |-> entry.time, alert |-> 0]

createAlertNotification(alert, loc) ==
    [type |-> "weather_alert", location |-> loc,
     time |-> <<>>, entry |-> Null, alert |-> alert]

\* location.split(',')[0]
RECURSIVE FirstSegment(_)
FirstSegment(s) ==
    IF s = <<>> \/ Head(s) = "," THEN <<>> ELSE <<Head(s)>> \o FirstSegment(Tail(s))

\* "Weather Update Failed": names the first segment of the location only.
failedNotification(loc) ==
    [type |-> "error", location |-> FirstSegment(loc), time |-> <<>>,
     entry |-> Null, alert |-> 0]

\* The payloads sendLocationNotifications sends, in its order.
\* The batches with the forecast sent ahead of the current weather.
LocationPayloadsForecastFirst(tk) ==
    <<forecastNotification(tk.location, tk.nxt, tk.tz),
      currentNotification(tk.location, tk.cur, tk.tz)>>
    \o [i \in 1..Len(tk.alerts) |-> createAlertNotification(tk.alerts[i], tk.location)]

LocationPayloads(tk) ==
    <<currentNotification(tk.location, tk.cur, tk.tz),
      forecastNotification(tk.location, tk.nxt, tk.tz)>>
    \o [i \in 1..Len(tk.alerts) |-> createAlertNotification(tk.alerts[i], tk.location)]

----------------------------------------------------------------------------
(* The push service *)

\* Delete requests, expired endpoints, transient failures and failed storage
\* calls so far.
Faults == dels + Cardinality(gone) + transients + dbFaults

\* What webpush.sendNotification may answer for each of the endpoints `who`:
\* 404/410 for an endpoint that is gone, otherwise delivery or a transient
\* failure (within MaxTransient and the budget of faults).
SendResults(who) ==
    { r \in [1..Len(who) -> {"Delivered", "Transient", "Permanent"}] :
        /\ \A i \in 1..Len(who) : (r[i] = "Permanent") <=> (who[i] \in gone)
        /\ LET n == Cardinality({i \in 1..Len(who) : r[i] = "Transient"})
           IN  n = 0 \/ (transients + n <= MaxTransient /\ Faults + n <= budget.faults) }

\* A test that takes every failed send for a dead endpoint.
IsFailure(res) == res # "Delivered"

\* err.statusCode === 410 || err.statusCode === 404
IsGone(res) == res = "Permanent"

\* Catch handlers that leave the collection alone.
AfterSendsKeep(coll, who, r) == coll

\* The collection after the catch handlers of one batch ran.
RECURSIVE AfterSends(_, _, _)
AfterSends(coll, who, r) ==
    IF who = <<>> THEN coll
    ELSE AfterSends(IF IsGone(r[1]) THEN DeleteOne(coll, who[1]) ELSE coll,
                    Tail(who), Tail(r))

\* The sends of one batch, as the run's log records them (loc: the location
\* being processed).
Sent(who, payload, r, loc) ==
    [i \in 1..Len(who) |->
        [to |-> who[i], payload |-> payload, res |-> r[i], loc |-> loc]]

Count(r, v) == Cardinality({i \in 1..Len(r) : r[i] = v})

\* The endpoints of `who` whose send was accepted.
Accepted(who, r) == {who[i] : i \in {j \in 1..Len(who) : r[j] = "Delivered"}}

AsSeq(f) == [i \in 1..Len(f) |-> f[i]]

----------------------------------------------------------------------------
(* Handlers.  status is the HTTP status answered (0: none yet).  Seven      *)
(* fields only observe a run and are read by no action: touched (endpoints  *)
(* whose record a request changed while the handler ran), existed (the      *)
(* upsert found a record), provided (the alerts of the provider's           *)
(* response), covered (the response had entries for the current and the     *)
(* next local hour), fetchedAt (the instant of the fetch), failure (what    *)
(* threw on the way to the catch block: "provider", "gap" or "storage")     *)
(* and calls (the locations the provider was asked for, in order).          *)

Idle ==
    [pc |-> "idle", groups |-> <<>>, idx |-> 0, subscription |-> NoEndpoint,
     location |-> <<>>, tz |-> 0, cur |-> NoEntry, nxt |-> NoEntry,
     alerts |-> <<>>, subscribers |-> <<>>, stage |-> 0, log |-> <<>>,
     status |-> 0, touched |-> {}, existed |-> FALSE,
     provided |-> <<>>, covered |-> FALSE, fetchedAt |-> Null,
     failure |-> "none", calls |-> <<>>]

Running(t) == task[t].pc # "idle"

\* A request changed the record of endpoint e: every running handler other
\* than `by` notes it.
Touch(tasks, by, e) ==
    [t \in DOMAIN tasks |->
        IF t # by /\ tasks[t].pc # "idle"
        THEN [tasks[t] EXCEPT !.touched = @ \cup {e}]
        ELSE tasks[t]]

\* The state once the module is loaded and scheduleTwoHourWeatherUpdates ran.
Start(b, envs) ==
    /\ \E env \in envs :
          /\ serverTz = env.serverTz
          /\ hourCycle = env.hourCycle
          /\ cityTz = env.cityTz
          /\ now = env.start
    /\ ticks = 0
    /\ timer = now + minutesToNextUpdate(now)
    /\ subs = <<>>
    /\ gone = {}
    /\ transients = 0
    /\ task = [t \in {"sched", "reg"} |-> Idle]
    /\ regs = 0
    /\ dels = 0
    /\ cycles = 0
    /\ deleted = [endpoint |-> NoEndpoint, status |-> 0]
    /\ budget = b
    /\ dbFaults = 0
    /\ delivered = {}
    /\ faultedCycle = 0

Init == Start(RequestBudget, Environments)

\* The scheduler met a fault in its current cycle.
Noted(t, fault) == IF t = "sched" /\ fault THEN cycles ELSE faultedCycle

\* Time passes; a due timer fires before the clock moves on, and the clock
\* stops once the last cycle of the model has started.
Tick ==
    /\ ticks < budget.ticks
    /\ cycles < budget.cycles
    /\ now < timer
    /\ now' = now + TickMinutes
    /\ ticks' = ticks + 1
    /\ UNCHANGED <<serverTz, hourCycle, cityTz, budget, timer, subs, gone, transients,
                   task, regs, dels, cycles, deleted, dbFaults, delivered,
                   faultedCycle>>

\* The push service drops an endpoint (the browser unsubscribed or expired).
Expire(e) ==
    /\ e \notin gone
    /\ Faults < budget.faults
    /\ gone' = gone \cup {e}
    /\ UNCHANGED <<serverTz, hourCycle, cityTz, budget, now, ticks, timer, subs,
                   transients, task, regs, dels, cycles, deleted, dbFaults,
                   delivered, faultedCycle>>

\* A request body accepted whatever its keys.
InvalidFormatEndpointOnly(e, hasKeys) == e = NoEndpoint

\* !subscription?.endpoint || !subscription?.keys
InvalidFormat(e, hasKeys) == e = NoEndpoint \/ ~hasKeys

\* POST /api/subscribe, up to and including the upsert.
Subscribe(e, hasKeys, rawLocation) ==
    /\ ~Running("reg")
    /\ regs < budget.regs
    /\ regs = 0 => e # "e2"     \* endpoints are interchangeable
    /\ regs' = regs + 1
    /\ IF InvalidFormat(e, hasKeys)
       THEN /\ task' = [task EXCEPT !["reg"] = [Idle EXCEPT !.status = 400]]
            /\ UNCHANGED <<subs, dbFaults>>
       ELSE IF rawLocation = Undefined
       THEN \* location.replace throws: caught, 500
            /\ task' = [task EXCEPT !["reg"] = [Idle EXCEPT !.status = 500]]
            /\ UNCHANGED <<subs, dbFaults>>
       ELSE LET normalizedLocation == NormalizeLocation(rawLocation)
                subDoc == [endpoint |-> e,
                           createdAt |-> now,
                           lastNotified |-> Null,
                           location |-> normalizedLocation,
                           nextNotificationTime |->
                               calculateNextNotificationTime(now, serverTz)]
            IN  \/ /\ subs' = UpsertOne(subs, subDoc)
                   /\ task' = [Touch(task, "reg", e) EXCEPT !["reg"] =
                                  [Idle EXCEPT !.pc = "fetch",
                                               !.subscription = e,
                                               !.location = normalizedLocation,
                                               !.existed = (Matching(e) # {})]]
                   /\ UNCHANGED dbFaults
                \/ \* updateOne throws: caught, 500
                   /\ Faults < budget.faults
                   /\ dbFaults' = dbFaults + 1
                   /\ task' = [task EXCEPT !["reg"] = [Idle EXCEPT !.status = 500]]
                   /\ UNCHANGED subs
    /\ UNCHANGED <<serverTz, hourCycle, cityTz, budget, now, ticks, timer, gone,
                   transients, dels, cycles, deleted, delivered, faultedCycle>>

\* DELETE /api/subscribe
Unsubscribe(e) ==
    /\ dels < budget.dels
    /\ Faults < budget.faults
    /\ dels' = dels + 1
    /\ \/ /\ subs' = DeleteOne(subs, e)
          /\ deleted' = [endpoint |-> e,
                         status |-> IF Matching(e) # {} THEN 200 ELSE 404]
          /\ task' = Touch(task, "none", e)
          /\ UNCHANGED dbFaults
       \/ \* deleteOne throws: caught, 500
          /\ dbFaults' = dbFaults + 1
          /\ deleted' = [endpoint |-> e, status |-> 500]
          /\ UNCHANGED <<subs, task>>
    /\ UNCHANGED <<serverTz, hourCycle, cityTz, budget, now, ticks, timer, gone,
                   transients, regs, cycles, delivered, faultedCycle>>

EndpointsOf(docs) == [i \in 1..Len(docs) |-> docs[i].endpoint]

\* locationsMap: one group per location, in the order of first appearance.
\* A grouping that makes one group of every record.
GroupPerSubscription(coll) ==
    [k \in 1..Len(coll) |->
        [location |-> coll[k].location, subscribers |-> <<coll[k].endpoint>>]]

GroupByLocation(coll) ==
    LET firsts == SelectSeq([i \in 1..Len(coll) |-> i],
                     LAMBDA i : \A j \in 1..(i - 1) :
                                   coll[j].location # coll[i].location)
    IN  [k \in 1..Len(firsts) |->
            [location |-> coll[firsts[k]].location,
             subscribers |->
                 EndpointsOf(FindByLocation(coll, coll[firsts[k]].location))]]

\* A loop that a failed location ends.
AfterLocationAbort(t, tk) ==
    IF t = "sched" /\ tk.idx < Len(tk.groups) /\ tk.pc # "fallback"
    THEN [tk EXCEPT !.pc = "fetch", !.idx = @ + 1]
    ELSE [tk EXCEPT !.pc = "done"]

\* The handler's state once the work on its current location is over.
AfterLocation(t, tk) ==
    IF t = "sched" /\ tk.idx < Len(tk.groups)
    THEN [tk EXCEPT !.pc = "fetch", !.idx = @ + 1]
    ELSE [tk EXCEPT !.pc = "done"]

\* An interval that fires again at once.
NextFiringAtOnce(t) == t

\* setInterval(sendTwoHourWeatherUpdates, 2 * 60 * 60 * 1000), armed when the
\* one-shot timer fires: the firing after the one at instant t.
NextFiring(t) == t + 2 * 60

\* The timer fires: sendTwoHourWeatherUpdates lists the collection and groups
\* it by location; getAllSubscriptions answers [] when find({}) throws.  A
\* cycle is taken to end before the next firing.
\* getAllSubscriptions: the stored records, or the empty list when the
\* find fails.
getAllSubscriptions(coll, fails) == IF fails THEN <<>> ELSE coll

\* The scheduler after its listing returned allSubs: over when the list is
\* empty, else at the lookup of the first location.
AfterListing(allSubs) ==
    LET tk == [Idle EXCEPT !.groups = GroupByLocation(allSubs)]
    IN  IF Len(allSubs) = 0 THEN [tk EXCEPT !.pc = "done"]
        ELSE [tk EXCEPT !.pc = "fetch", !.idx = 1]

CycleStart ==
    /\ now >= timer
    /\ ~Running("sched")
    /\ cycles < budget.cycles
    /\ cycles' = cycles + 1
    /\ timer' = NextFiring(timer)
    /\ \/ /\ task' = [task EXCEPT !["sched"] = AfterListing(getAllSubscriptions(subs, FALSE))]
          /\ UNCHANGED <<dbFaults, faultedCycle>>
       \/ \* find().toArray() throws: getAllSubscriptions returns []
          /\ Faults < budget.faults
          /\ dbFaults' = dbFaults + 1
          /\ faultedCycle' = cycles + 1
          /\ task' = [task EXCEPT !["sched"] = AfterListing(getAllSubscriptions(subs, TRUE))]
    /\ UNCHANGED <<serverTz, hourCycle, cityTz, budget, now, ticks, subs, gone,
                   transients, regs, dels, deleted, delivered>>

\* A lookup that goes on with the entries it has, found or not.
AfterFetchNoThrow(tk, loc, resp, currentData, nextData, activeAlerts) ==
    [tk EXCEPT !.pc = "find", !.location = loc, !.tz = resp.tz,
               !.cur = currentData, !.nxt = nextData,
               !.alerts = activeAlerts, !.provided = resp.alerts,
               !.covered = Covers(resp, now), !.fetchedAt = now,
                    !.calls = Append(@, loc),
               !.failure = "none"]

\* The handler's locals once the hours were looked up in a response.
AfterFetch(tk, loc, resp, currentData, nextData, activeAlerts) ==
    IF currentData = NoEntry \/ nextData = NoEntry
    THEN \* 'Missing hourly data' is thrown: the locals are dead
         [tk EXCEPT !.pc = "fallback", !.location = loc, !.tz = 0,
                    !.cur = NoEntry, !.nxt = NoEntry, !.alerts = <<>>,
                    !.provided = <<>>, !.covered = Covers(resp, now),
                    !.fetchedAt = now,
                    !.calls = Append(@, loc), !.failure = "gap"]
    ELSE [tk EXCEPT !.pc = "find", !.location = loc, !.tz = resp.tz,
                    !.cur = currentData, !.nxt = nextData,
                    !.alerts = activeAlerts, !.provided = resp.alerts,
                    !.covered = Covers(resp, now), !.fetchedAt = now,
                    !.calls = Append(@, loc),
                    !.failure = "none"]

\* fetchWeatherData threw.
AfterFailedFetch(tk, loc) ==
    [tk EXCEPT !.pc = "fallback", !.location = loc, !.tz = 0, !.cur = NoEntry,
               !.nxt = NoEntry, !.alerts = <<>>, !.provided = <<>>,
               !.covered = FALSE, !.fetchedAt = now,
                    !.calls = Append(@, loc), !.failure = "provider"]

\* sendTwoHourWeatherUpdates, one location: the fetch and the lookup of the
\* entries whose local_hour is the current and the next local hour.
CycleLookup(tk, loc, resp) ==
    LET localHour == LocalHourIn(now, resp.tz)
        nextHour == (localHour + 1) % 24
        currentData == FindHour(resp.hour, LAMBDA h : h.local_hour = localHour)
        nextData == FindHour(resp.hour, LAMBDA h : h.local_hour = nextHour)
    IN  AfterFetch(tk, loc, resp, currentData, nextData, <<>>)

CycleFetch ==
    /\ task["sched"].pc = "fetch"
    /\ LET tk == task["sched"]
           loc == tk.groups[tk.idx].location
       IN  \/ task' = [task EXCEPT !["sched"] = AfterFailedFetch(tk, loc)]
           \/ /\ Fetchable(loc)
              /\ \E resp \in ProviderResponses(loc, now) :
                    task' = [task EXCEPT !["sched"] = CycleLookup(tk, loc, resp)]
    /\ faultedCycle' = Noted("sched", task'["sched"].pc = "fallback")
    /\ UNCHANGED <<serverTz, hourCycle, cityTz, budget, now, ticks, timer, subs, gone,
                   transients, regs, dels, cycles, deleted, dbFaults, delivered>>

\* sendWeatherUpdateForSubscription: the fetch, the re-projection of every
\* entry into the zone and the lookup.
RegLookup(tk, loc, resp) ==
    LET localHour == LocalHourIn(now, resp.tz)
        nextHour == (localHour + 1) % 24
        adjustedHourlyData ==
            [i \in 1..Len(resp.hour) |->
                [resp.hour[i] EXCEPT
                    !.local_hour = LocalHourIn(resp.hour[i].time, resp.tz)]]
        currentData == FindHour(adjustedHourlyData,
                                LAMBDA h : h.local_hour = localHour)
        nextData == FindHour(adjustedHourlyData,
                             LAMBDA h : h.local_hour = nextHour)
        activeAlerts == resp.alerts
    IN  AfterFetch(tk, loc, resp, currentData, nextData, activeAlerts)

RegFetch ==
    /\ task["reg"].pc = "fetch"
    /\ LET tk == task["reg"]
           loc == tk.location
       IN  \/ task' = [task EXCEPT !["reg"] = AfterFailedFetch(tk, loc)]
           \/ /\ Fetchable(loc)
              /\ \E resp \in ProviderResponses(loc, now) :
                    task' = [task EXCEPT !["reg"] = RegLookup(tk, loc, resp)]
    /\ UNCHANGED <<serverTz, hourCycle, cityTz, budget, now, ticks, timer, subs, gone,
                   transients, regs, dels, cycles, deleted, dbFaults, delivered,
                   faultedCycle>>

\* A throw that no catch block takes.
AfterStorageFaultUncaught(tk) == [tk EXCEPT !.pc = "uncaught"]

\* A storage call of sendLocationNotifications threw: the caller's catch
\* block takes over.
AfterStorageFault(tk) == [tk EXCEPT !.pc = "fallback", !.failure = "storage"]

\* sendLocationNotifications: find({location}); nothing to do when empty.
FindSubscribers(t) ==
    /\ task[t].pc = "find"
    /\ \/ /\ LET tk == task[t]
                  locationSubscribers ==
                      EndpointsOf(FindByLocation(subs, tk.location))
                  after == IF Len(locationSubscribers) = 0 THEN AfterLocation(t, tk)
                           ELSE [tk EXCEPT !.pc = "batch", !.stage = 1,
                                           !.subscribers = locationSubscribers]
              IN  task' = [task EXCEPT ![t] = after]
          /\ UNCHANGED <<dbFaults, faultedCycle>>
       \/ /\ Faults < budget.faults
          /\ dbFaults' = dbFaults + 1
          /\ faultedCycle' = Noted(t, TRUE)
          /\ task' = [task EXCEPT ![t] = AfterStorageFault(task[t])]
    /\ UNCHANGED <<serverTz, hourCycle, cityTz, budget, now, ticks, timer, subs, gone,
                   transients, regs, dels, cycles, deleted, delivered>>

\* A batch that a failed send ends (Promise.all in place of allSettled,
\* with the rejection swallowed).
AfterBatchAbort(tk, r) ==
    IF tk.stage < Len(LocationPayloads(tk)) /\ \A i \in DOMAIN r : r[i] = "Delivered"
    THEN [tk EXCEPT !.stage = @ + 1]
    ELSE [tk EXCEPT !.pc = "update"]

\* Where sendLocationNotifications goes after the batch of payload `stage`.
AfterBatch(tk, r) ==
    IF tk.stage < Len(LocationPayloads(tk))
    THEN [tk EXCEPT !.stage = @ + 1]
    ELSE [tk EXCEPT !.pc = "update"]

\* sendBatchNotifications(locationSubscribers, payload) for the next payload.
SendBatch(t) ==
    /\ task[t].pc = "batch"
    /\ LET tk == task[t]
           payload == LocationPayloads(tk)[tk.stage]
       IN  \E r \in SendResults(tk.subscribers) :
              /\ subs' = AfterSends(subs, tk.subscribers, AsSeq(r))
              /\ transients' = transients + Count(r, "Transient")
              /\ delivered' = delivered \cup Accepted(tk.subscribers, r)
              /\ faultedCycle' = Noted(t, \E i \in DOMAIN r : r[i] # "Delivered")
              /\ task' = [task EXCEPT ![t] =
                     AfterBatch([tk EXCEPT !.log = @ \o
                         Sent(tk.subscribers, payload, r, tk.location)], r)]
    /\ UNCHANGED <<serverTz, hourCycle, cityTz, budget, now, ticks, timer, gone, regs,
                   dels, cycles, deleted, dbFaults>>

\* A bookkeeping that writes every subscriber of the delivery back with an
\* upsert, whether its record is still stored or not.
BookkeepingUpsert(coll, tk) ==
    LET next == calculateNextNotificationTime(now, tk.tz)
        lost == SelectSeq(tk.subscribers, LAMBDA e :
                            \A k \in 1..Len(coll) : coll[k].endpoint # e)
    IN  UpdateMany(coll, tk.location, now, next)
        \o [i \in 1..Len(lost) |->
               [endpoint |-> lost[i], createdAt |-> now, lastNotified |-> now,
                location |-> tk.location, nextNotificationTime |-> next]]

\* The bookkeeping write that ends sendLocationNotifications.
Bookkeeping(coll, tk) ==
    UpdateMany(coll, tk.location, now,
               calculateNextNotificationTime(now, tk.tz))

UpdateNotified(t) ==
    /\ task[t].pc = "update"
    /\ \/ /\ LET after == AfterLocation(t, task[t])
              IN  /\ subs' = Bookkeeping(subs, task[t])
                  /\ task' = [task EXCEPT ![t] = after]
          /\ UNCHANGED <<dbFaults, faultedCycle>>
       \/ \* updateMany throws
          /\ Faults < budget.faults
          /\ dbFaults' = dbFaults + 1
          /\ faultedCycle' = Noted(t, TRUE)
          /\ task' = [task EXCEPT ![t] = AfterStorageFault(task[t])]
          /\ UNCHANGED subs
    /\ UNCHANGED <<serverTz, hourCycle, cityTz, budget, now, ticks, timer, gone,
                   transients, regs, dels, cycles, deleted, delivered>>

\* A fallback sent to nobody.
FallbackToNone(t, tk) == <<>>

\* Those the fallback of a handler is sent to: the group taken from the
\* listing (scheduler), the registering subscription (registration).
FallbackTargets(t, tk) ==
    IF t = "sched" THEN tk.groups[tk.idx].subscribers ELSE <<tk.subscription>>

\* The catch blocks: "Weather Update Failed" through sendBatchNotifications
\* (scheduler) or sendNotification (registration).
SendFallback(t) ==
    /\ task[t].pc = "fallback"
    /\ LET tk == task[t]
           who == FallbackTargets(t, tk)
           payload == failedNotification(tk.location)
       IN  \E r \in SendResults(who) :
              LET after == AfterLocation(t,
                      [tk EXCEPT !.log = @ \o Sent(who, payload, r, tk.location)])
              IN  /\ subs' = AfterSends(subs, who, AsSeq(r))
                  /\ transients' = transients + Count(r, "Transient")
                  /\ delivered' = delivered \cup Accepted(who, r)
                  /\ task' = [task EXCEPT ![t] = after]
    /\ UNCHANGED <<serverTz, hourCycle, cityTz, budget, now, ticks, timer, gone, regs,
                   dels, cycles, deleted, dbFaults, faultedCycle>>

\* The handler returns: the cycle ends, POST /api/subscribe answers 201.
Return(t) ==
    /\ task[t].pc = "done"
    /\ task' = [task EXCEPT ![t] =
                   [Idle EXCEPT !.status = IF t = "reg" THEN 201 ELSE 0]]
    /\ UNCHANGED <<serverTz, hourCycle, cityTz, budget, now, ticks, timer, subs, gone,
                   transients, regs, dels, cycles, deleted, dbFaults, delivered,
                   faultedCycle>>

Next ==
    \/ Tick
    \/ \E e \in Endpoints : Expire(e)
    \/ \E e \in Endpoints \cup {NoEndpoint}, k \in BOOLEAN, l \in RawLocations :
          Subscribe(e, k, l)
    \/ \E e \in Endpoints : Unsubscribe(e)
    \/ CycleStart
    \/ CycleFetch
    \/ RegFetch
    \/ \E t \in {"sched", "reg"} : FindSubscribers(t)
    \/ \E t \in {"sched", "reg"} : SendBatch(t)
    \/ \E t \in {"sched", "reg"} : UpdateNotified(t)
    \/ \E t \in {"sched", "reg"} : SendFallback(t)
    \/ \E t \in {"sched", "reg"} : Return(t)

Spec == Init /\ [][Next]_vars

\* The same program followed over several firings of the timer.
\* The process starts on the top of an even hour of the host's clock.
CadenceEnvironments ==
    {env \in Environments :
        (env.start + env.serverTz) % 60 = 0
        /\ ((env.start + env.serverTz) \div 60) % 2 = 0}

CadenceInit == Start(CadenceBudget, CadenceEnvironments)
CadenceSpec == CadenceInit /\ [][Next]_vars

\* Node runs a due timer callback and resumes a handler whose awaited call
\* has settled; every provider, push and storage call settles.
FairCadenceSpec ==
    /\ CadenceSpec
    /\ WF_vars(Tick)
    /\ WF_vars(CycleStart)
    /\ WF_vars(CycleFetch)
    /\ \A t \in {"sched", "reg"} :
          /\ WF_vars(FindSubscribers(t))
          /\ WF_vars(SendBatch(t))
          /\ WF_vars(UpdateNotified(t))
          /\ WF_vars(SendFallback(t))
          /\ WF_vars(Return(t))

\* A step of a started cycle: an awaited provider, storage or send call of
\* sendTwoHourWeatherUpdates returned or failed and the function went on.
CycleStep ==
    \/ CycleFetch
    \/ FindSubscribers("sched")
    \/ SendBatch("sched")
    \/ UpdateNotified("sched")
    \/ SendFallback("sched")

\* Whether a cycle ends does not depend on how the runtime renders
\* midnight: the cycles are followed on the hosts that render it as 0.
CycleEnvironments == {env \in Environments : env.hourCycle = "h23"}

CycleInit == Start(RequestBudget, CycleEnvironments)

\* Every awaited call of a cycle eventually returns or fails.
FairCycleSpec == CycleInit /\ [][Next]_vars /\ WF_vars(CycleStep)

----------------------------------------------------------------------------
(* Properties *)

Tasks == {"sched", "reg"}

\* The sends of a run to endpoint e while it worked on location loc.
SendsTo(tk, e, loc) == SelectSeq(tk.log, LAMBDA x : x.to = e /\ x.loc = loc)

Types(entries) == [i \in 1..Len(entries) |-> entries[i].payload.type]

\* The endpoints the cycle listed.
Listed(tk) ==
    UNION { {tk.groups[k].subscribers[i] :
                i \in 1..Len(tk.groups[k].subscribers)} :
            k \in 1..Len(tk.groups) }

\* t is the top of an even hour in zone tz.
EvenHourIn(t, tz) == (t + tz) % 60 = 0 /\ HourOfDay(t, tz) % 2 = 0

\* C1: the collection never holds two records with one endpoint, and a
\* registration of an endpoint that has a record replaces that record
\* without changing the number of records.
C1_OneRecordPerEndpoint ==
    /\ [](\A e \in Endpoints : Cardinality(Matching(e)) <= 1)
    /\ [][(/\ regs' = regs + 1
           /\ task'["reg"].pc = "fetch"
           /\ task'["reg"].subscription \in Stored)
          => (/\ Len(subs') = Len(subs)
              /\ \E i \in 1..Len(subs') :
                    /\ subs'[i].endpoint = task'["reg"].subscription
                    /\ subs'[i].lastNotified = Null
                    /\ subs'[i].createdAt = now
                    /\ subs'[i].location = task'["reg"].location)]_vars

\* A registration found a record of its endpoint and replaced it.
C1_Witness ==
    /\ task["reg"].pc = "fetch"
    /\ task["reg"].existed
    /\ Len(subs) = 1
    /\ regs = 2

\* C2: every stored subscription whose location resolves to a zone has a
\* nextNotificationTime at the top of an even hour of that zone.
C2_NextIsEvenLocalHour ==
    \A i \in 1..Len(subs) :
        Fetchable(subs[i].location)
            => EvenHourIn(subs[i].nextNotificationTime, TzOf(subs[i].location))

\* A record of subs' is a record of subs: none was written.
NoRecordWritten == \A i \in 1..Len(subs') : \E j \in 1..Len(subs) : subs'[i] = subs[j]

\* C3: when a cycle has ended, an endpoint it listed, that no request
\* touched meanwhile and to which every send of the cycle was answered
\* 404/410, has no record left; this on the weather path and on the
\* fallback path.
C3_DeadEndpointPruned ==
    task["sched"].pc = "done" =>
        \A e \in Listed(task["sched"]) \ task["sched"].touched :
            (/\ e \in gone
             /\ \A i \in 1..Len(task["sched"].log) :
                   task["sched"].log[i].to = e
                       => task["sched"].log[i].res = "Permanent")
            => e \notin Stored

\* A cycle ended in which an endpoint was sent weather payloads, each
\* answered 404/410.
C3_Witness ==
    /\ task["sched"].pc = "done"
    /\ \E i \in 1..Len(task["sched"].log) :
          /\ task["sched"].log[i].res = "Permanent"
          /\ task["sched"].log[i].payload.type = "current_weather"
          /\ task["sched"].log[i].to \notin task["sched"].touched

\* C4: a handler whose fetch failed, or whose response lacks the current or
\* the next local hour, takes the fallback path: for that location it sends
\* one failure payload to each of its targets and no weather payload, and
\* the step writes no record.
C4_FallbackOnly ==
    /\ [](\A t \in Tasks :
            LET tk == task[t] IN
            /\ tk.pc \in {"find", "batch", "update"} => tk.covered
            /\ (tk.pc = "fallback" /\ tk.failure \in {"provider", "gap"}) =>
                  \A i \in 1..Len(FallbackTargets(t, tk)) :
                      SendsTo(tk, FallbackTargets(t, tk)[i], tk.location) = <<>>)
    /\ [][\A t \in Tasks :
            (/\ task[t].pc = "fallback"
             /\ task[t].failure \in {"provider", "gap"}
             /\ task'[t].pc # "fallback") =>
                /\ NoRecordWritten
                /\ Len(task'[t].log) =
                       Len(task[t].log) + Len(FallbackTargets(t, task[t]))
                /\ \A e \in {FallbackTargets(t, task[t])[i] :
                                 i \in 1..Len(FallbackTargets(t, task[t]))} :
                      Types(SendsTo(task'[t], e, task[t].location)) = <<"error">>]_vars

\* A cycle fell back for a location the provider could have served, with a
\* stored record that an earlier delivery had stamped.
C4_Witness ==
    /\ task["sched"].pc = "done"
    /\ ~task["sched"].covered
    /\ task["sched"].failure \in {"provider", "gap"}
    /\ \E k \in 1..Len(task["sched"].log) :
          /\ task["sched"].log[k].payload.type = "error"
          /\ Fetchable(task["sched"].log[k].loc)
          /\ \E i \in 1..Len(subs) :
                /\ subs[i].endpoint = task["sched"].log[k].to
                /\ subs[i].lastNotified # Null

\* The first top of an even hour of zone tz after instant t.
NextEvenLocalHour(t, tz) ==
    ((t + tz) \div 60) * 60 + (2 - (HourOfDay(t, tz) % 2)) * 60 - tz

\* The local hour at which the cycle fetched for its current location.
CycleHour == HourOfDay(task["sched"].fetchedAt, TzOf(task["sched"].location))

\* C5: a cycle at local hour h whose response has entries for local hours h
\* and h+1 does not fall back, builds current_weather from the entry of hour
\* h and forecast from the entry of hour h+1, and its bookkeeping write sets
\* nextNotificationTime to the next even local hour.
C5_CycleUsesLocalHours ==
    /\ []((task["sched"].pc = "fallback" /\ task["sched"].failure # "storage")
            => ~task["sched"].covered)
    /\ [](task["sched"].pc \in {"find", "batch", "update"} =>
            LET tk == task["sched"] IN
            /\ LocationPayloads(tk)[1].type = "current_weather"
            /\ HourOfDay(LocationPayloads(tk)[1].entry, tk.tz) = CycleHour
            /\ LocationPayloads(tk)[2].type = "forecast"
            /\ HourOfDay(LocationPayloads(tk)[2].entry, tk.tz) = (CycleHour + 1) % 24)
    /\ [][(task["sched"].pc = "update" /\ task'["sched"].pc # "update") =>
            \A i \in 1..Len(subs') :
                subs'[i].location = task["sched"].location =>
                    subs'[i].nextNotificationTime =
                        NextEvenLocalHour(now, TzOf(task["sched"].location))]_vars

AlertsSent(entries) ==
    LET a == SelectSeq(entries, LAMBDA x : x.payload.type = "weather_alert")
    IN  [i \in 1..Len(a) |-> a[i].payload.alert]

\* C6: when the sends of a delivery are over, each subscriber was sent one
\* weather_alert payload per alert of the provider's response, in the
\* provider's order.
C6_OneAlertPayloadPerAlert ==
    \A t \in Tasks :
        task[t].pc = "update" =>
            \A i \in 1..Len(task[t].subscribers) :
                AlertsSent(SendsTo(task[t], task[t].subscribers[i],
                                   task[t].location)) = task[t].provided

\* C7: once a send of a cycle to an endpoint was answered 404/410, the cycle
\* sends nothing more to that endpoint.
C7_NoSendAfterPermanent ==
    \A i, j \in 1..Len(task["sched"].log) :
        (i < j /\ task["sched"].log[i].res = "Permanent")
            => task["sched"].log[j].to # task["sched"].log[i].to

\* C8: a registration sends to its own endpoint only, and its bookkeeping
\* write changes no record of another endpoint.
C8_RegistrationTouchesOnlyItself ==
    /\ [](\A i \in 1..Len(task["reg"].log) :
            task["reg"].log[i].to = task["reg"].subscription)
    /\ [][(task["reg"].pc = "update" /\ task'["reg"].pc # "update") =>
            \A i \in 1..Len(subs') :
                subs'[i].endpoint # task["reg"].subscription =>
                    \E j \in 1..Len(subs) : subs[j] = subs'[i]]_vars

\* C9: when a cycle has ended, every endpoint it listed, that no request
\* touched meanwhile and that still has a record, was sent the failure
\* payload or the weather payloads of its location, whatever happened to
\* the locations before.
C9_EveryListedSubscriptionAttempted ==
    task["sched"].pc = "done" =>
        \A k \in 1..Len(task["sched"].groups) :
            \A i \in 1..Len(task["sched"].groups[k].subscribers) :
                LET e == task["sched"].groups[k].subscribers[i]
                    sent == Types(SendsTo(task["sched"], e,
                                          task["sched"].groups[k].location))
                IN  (e \notin task["sched"].touched /\ e \in Stored) =>
                        \/ sent = <<"error">>
                        \/ /\ Len(sent) >= 2
                           /\ sent[1] = "current_weather"
                           /\ sent[2] = "forecast"

\* A cycle over two locations ended: the first fell back with a failed send,
\* and the subscriber of the second was sent its weather payloads.
C9_Witness ==
    /\ task["sched"].pc = "done"
    /\ Len(task["sched"].groups) = 2
    /\ task["sched"].log[1].payload.type = "error"
    /\ task["sched"].log[1].res # "Delivered"
    /\ task["sched"].log[1].loc = task["sched"].groups[1].location
    /\ \E i \in 1..Len(task["sched"].log) :
          /\ task["sched"].log[i].loc = task["sched"].groups[2].location
          /\ task["sched"].log[i].payload.type = "forecast"

\* C10: when the sends of a delivery are over, every subscriber was sent
\* every payload of the delivery once, in order, whatever each send was
\* answered; and an endpoint with a transient failure keeps its record
\* unless a request touched it or the push service dropped it.
C10_TransientFailureSkipsNothing ==
    \A t \in Tasks :
        /\ task[t].pc = "update" =>
              \A i \in 1..Len(task[t].subscribers) :
                  LET sent == SendsTo(task[t], task[t].subscribers[i],
                                      task[t].location)
                  IN  [k \in 1..Len(sent) |-> sent[k].payload]
                          = LocationPayloads(task[t])
        /\ \A k \in 1..Len(task[t].log) :
              (/\ task[t].log[k].res = "Transient"
               /\ task[t].log[k].to \notin task[t].touched
               /\ task[t].log[k].to \notin gone)
                  => task[t].log[k].to \in Stored

\* The first of four payloads of a delivery failed transiently; the other
\* three were sent.
C10_Witness ==
    /\ task["reg"].pc = "update"
    /\ Len(LocationPayloads(task["reg"])) = 2 + MaxAlerts
    /\ Len(task["reg"].subscribers) = 1
    /\ task["reg"].log[1].res = "Transient"
    /\ Len(task["reg"].log) = 2 + MaxAlerts


\* C11: a stored record has lastNotified set only if a send to its endpoint
\* was ever accepted by the push service.
C11_NotifiedOnlyAfterDelivery ==
    \A i \in 1..Len(subs) :
        subs[i].lastNotified # Null => subs[i].endpoint \in delivered

\* The instant at which the nextNotificationTime of a record was computed: its
\* last bookkeeping write or, before any, its registration.
ComputedAt(doc) ==
    IF doc.lastNotified # Null THEN doc.lastNotified ELSE doc.createdAt

\* C12: a nextNotificationTime computed at an instant of local hour h is
\* later than that instant, at most two hours later, and of local hour
\* (h + (2 - h mod 2)) mod 24.
C12_NextIsWithinTwoHours ==
    \A i \in 1..Len(subs) :
        Fetchable(subs[i].location) =>
            LET at == ComputedAt(subs[i])
                tz == TzOf(subs[i].location)
                h == HourOfDay(at, tz)
            IN  /\ subs[i].nextNotificationTime > at
                /\ subs[i].nextNotificationTime <= at + 2 * 60
                /\ HourOfDay(subs[i].nextNotificationTime, tz)
                       = (h + (2 - (h % 2))) % 24

\* C13: every stored location is non-empty and has no space next to a comma.
C13_LocationWellFormed ==
    \A i \in 1..Len(subs) :
        LET loc == subs[i].location IN
        /\ loc # <<>>
        /\ loc # Undefined
        /\ \A k \in 1..Len(loc) :
              loc[k] = "," =>
                  /\ k > 1 => ~IsSpace(loc[k - 1])
                  /\ k < Len(loc) => ~IsSpace(loc[k + 1])

\* C14: a POST /api/subscribe whose subscription lacks its endpoint or its
\* keys is answered 400, writes no record, starts no delivery and sends
\* nothing.
C14_InvalidFormatRejected ==
    [][\A e \in Endpoints \cup {NoEndpoint}, k \in BOOLEAN, l \in RawLocations :
          (Subscribe(e, k, l) /\ (e = NoEndpoint \/ ~k)) =>
              /\ task'["reg"].status = 400
              /\ task'["reg"].pc = "idle"
              /\ task'["sched"] = task["sched"]
              /\ subs' = subs
              /\ delivered' = delivered
              /\ dbFaults' = dbFaults]_vars

\* A request was answered 400 while a record was stored.
C14_Witness ==
    /\ task["reg"].status = 400
    /\ task["reg"].pc = "idle"
    /\ regs = 2
    /\ Len(subs) = 1

\* C15: the first firing of the timer is less than two hours after the
\* start, on the top of an even hour of the UTC clock, and the first such
\* instant at or after the start.
C15_FirstFiringOnEvenUtcHour ==
    (ticks = 0 /\ cycles = 0) =>
        /\ timer - now \in 0..(2 * 60 - 1)
        /\ EvenHourIn(timer, 0)
        /\ \A d \in 0..(timer - now - 1) : ~EvenHourIn(now + d, 0)

\* C16: the clock never passes a firing without the cycle starting; a cycle
\* starts only at the firing instant, one at a time, and arms the next
\* firing exactly two hours later.
C16_OneCyclePerFiring ==
    /\ [](now <= timer)
    /\ [][cycles' # cycles =>
            /\ cycles' = cycles + 1
            /\ now = timer
            /\ now' = now
            /\ timer' = timer + 2 * 60
            /\ task["sched"].pc = "idle"
            /\ task'["sched"].pc # "idle"]_vars
    /\ [][cycles' = cycles => timer' = timer]_vars

\* The second cycle has started, two hours after the first.
C16_Witness ==
    /\ cycles = 2
    /\ ticks = 2
    /\ task["sched"].pc = "fetch"
    /\ timer = now + 2 * 60

\* The positions of a handler.
Positions == {"idle", "fetch", "find", "batch", "update", "fallback", "done"}

\* The clock of the model can still reach the next firing.
FiringInReach ==
    /\ cycles < budget.cycles
    /\ timer - now <= (budget.ticks - ticks) * TickMinutes

\* C17: a fault met by the scheduler (a failed listing, fetch, lookup, find,
\* send or bookkeeping write) leaves the handler on its way to its end, and
\* the next cycle is started.
C17_CadenceSurvivesFaults ==
    /\ [](task["sched"].pc \in Positions)
    /\ \A k \in 1..CadenceCycles :
          (faultedCycle = k /\ cycles = k /\ FiringInReach) ~> (cycles > k)

\* The cycle after a cycle that met a fault has started.
C17_Witness ==
    /\ faultedCycle = 1
    /\ cycles = 2
    /\ task["sched"].pc = "fetch"

\* C18: a DELETE /api/subscribe that storage serves answers 200 exactly when
\* a record of the endpoint existed, leaves no record of that endpoint and
\* leaves every other record as it was.
C18_DeleteRemovesExactlyThatRecord ==
    [][\A e \in Endpoints :
          (Unsubscribe(e) /\ deleted'.status # 500) =>
              /\ deleted'.endpoint = e
              /\ deleted'.status \in {200, 404}
              /\ (deleted'.status = 200) <=> (e \in Stored)
              /\ \A i \in 1..Len(subs') : subs'[i].endpoint # e
              /\ subs' = SelectSeq(subs, LAMBDA d : d.endpoint # e)]_vars

\* A record was deleted and another is still stored.
C18_Witness ==
    /\ deleted.status = 200
    /\ deleted.endpoint \notin Stored
    /\ Len(subs) = 1

\* C19: once a weather payload of a location was sent to an endpoint, the
\* run sends it no failure payload for that location.
C19_NoFallbackAfterWeather ==
    \A t \in Tasks :
        \A i, j \in 1..Len(task[t].log) :
            (/\ i < j
             /\ task[t].log[i].to = task[t].log[j].to
             /\ task[t].log[i].loc = task[t].log[j].loc
             /\ task[t].log[i].payload.type # "error")
                => task[t].log[j].payload.type # "error"

\* C20: a step of a delivery removes the record of an endpoint only if a
\* send of that step to that endpoint was answered 404/410.
C20_OnlyPermanentPrunes ==
    [][dels' = dels =>
          \A e \in Stored :
              (\A i \in 1..Len(subs') : subs'[i].endpoint # e) =>
                  \E t \in Tasks :
                      \E i \in (Len(task[t].log) + 1)..Len(task'[t].log) :
                          /\ task'[t].log[i].to = e
                          /\ task'[t].log[i].res = "Permanent"]_vars

\* A send was answered 404/410 and the record of its endpoint is gone, with
\* the record of another endpoint still stored.
C20_Witness ==
    \E t \in Tasks :
        \E i \in 1..Len(task[t].log) :
            /\ task[t].log[i].res = "Permanent"
            /\ task[t].log[i].to \notin Stored
            /\ Len(subs) = 1

\* The place of a weather payload in the order of a delivery.
Rank(type) ==
    CASE type = "current_weather" -> 1
      [] type = "forecast" -> 2
      [] type = "weather_alert" -> 3
      [] OTHER -> 0

\* The weather sends of a run for location loc, in the order they were made.
WeatherSends(tk, loc) ==
    SelectSeq(tk.log, LAMBDA x : x.loc = loc /\ Rank(x.payload.type) > 0)

\* C21: in every delivery the sends of one location are made in the order
\* current weather, forecast, alerts: once a forecast was sent to anyone, no
\* current weather is sent any more, once an alert was sent, no forecast
\* or current weather; and each subscriber's first weather payload is the
\* current weather.
C21_CurrentThenForecastThenAlerts ==
    \A t \in Tasks :
        \A loc \in {task[t].log[i].loc : i \in 1..Len(task[t].log)} :
            LET sends == WeatherSends(task[t], loc)
            IN  /\ \A i, j \in 1..Len(sends) :
                      i < j => Rank(sends[i].payload.type)
                                   <= Rank(sends[j].payload.type)
                /\ \A e \in Endpoints :
                      LET mine == SelectSeq(sends, LAMBDA x : x.to = e)
                      IN  Len(mine) > 0 =>
                              mine[1].payload.type = "current_weather"

\* A delivery to two subscribers of one location sent the current weather,
\* the forecast and an alert to both, batch after batch.
C21_Witness ==
    \E t \in Tasks :
        /\ task[t].pc = "update"
        /\ Len(task[t].subscribers) = 2
        /\ Len(task[t].alerts) > 0
        /\ Types(WeatherSends(task[t], task[t].location))[1] = "current_weather"
        /\ Types(WeatherSends(task[t], task[t].location))[3] = "forecast"
        /\ Types(WeatherSends(task[t], task[t].location))[5] = "weather_alert"
        /\ Len(WeatherSends(task[t], task[t].location))
               = 2 * Len(LocationPayloads(task[t]))

\* C22: an endpoint enters the repository only by the upsert of a register
\* request for that endpoint; no step of a delivery (sends, pruning,
\* bookkeeping write, fallback) adds an endpoint, so a record deleted while
\* a delivery is in flight stays deleted when the delivery writes.
C22_OnlyRegisterAddsEndpoint ==
    [][\A e \in Stored' \ Stored :
          /\ regs' = regs + 1
          /\ task'["reg"].pc = "fetch"
          /\ task'["reg"].subscription = e]_vars

\* A delivery that had listed an endpoint ended with its bookkeeping write
\* after the owner's delete request removed the endpoint's record.
C22_Witness ==
    \E t \in Tasks :
        /\ task[t].pc = "done"
        /\ task[t].failure = "none"
        /\ Len(task[t].log) > 0
        /\ deleted.status = 200
        /\ deleted.endpoint \in task[t].touched
        /\ \E i \in 1..Len(task[t].subscribers) :
              task[t].subscribers[i] = deleted.endpoint
        /\ deleted.endpoint \notin Stored

\* A storage fault of a request or of a delivery step reached the caller
\* as an error: status 500 for a request, a thrown failure for a delivery.
FaultOutsideListingSurfaced ==
    /\ regs' # regs => task'["reg"].status = 500
    /\ dels' # dels => deleted'.status = 500
    /\ (regs' = regs /\ dels' = dels /\ cycles' = cycles) =>
          \E t \in Tasks : /\ task[t].failure # "storage"
                           /\ task'[t].failure = "storage"

\* C23: every storage fault is surfaced to the caller as an error, and a
\* cycle whose listing failed is left in a state that differs from the
\* state of a cycle that listed an empty repository.
C23_StorageFaultSurfaced ==
    [][dbFaults' # dbFaults =>
          /\ FaultOutsideListingSurfaced
          /\ cycles' # cycles => task'["sched"] # AfterListing(<<>>)]_vars

\* C24: a register request for an endpoint that already has a record leaves
\* the createdAt of that record as it was.
C24_CreatedAtKept ==
    [][\A e \in Stored :
          (/\ regs' = regs + 1
           /\ task'["reg"].pc = "fetch"
           /\ task'["reg"].subscription = e)
          => \A i \in 1..Len(subs), j \in 1..Len(subs') :
                (subs[i].endpoint = e /\ subs'[j].endpoint = e)
                => subs'[j].createdAt = subs[i].createdAt]_vars

\* C25: in a cycle that no request touched, the provider is called at most
\* once for each location, and no subscription is sent the same payload
\* twice.
C25_OncePerLocationAndPayload ==
    LET tk == task["sched"]
    IN  tk.touched = {} =>
            /\ \A i, j \in 1..Len(tk.calls) : tk.calls[i] = tk.calls[j] => i = j
            /\ \A i, j \in 1..Len(tk.log) :
                  (/\ tk.log[i].to = tk.log[j].to
                   /\ tk.log[i].payload = tk.log[j].payload) => i = j

\* A cycle that no request touched ended after it served two subscribers of
\* one location with one provider call and one send of each payload each.
C25_Witness ==
    /\ task["sched"].pc = "done"
    /\ task["sched"].touched = {}
    /\ Len(task["sched"].groups) = 1
    /\ Len(task["sched"].groups[1].subscribers) = 2
    /\ Len(task["sched"].calls) = 1
    /\ Types(task["sched"].log)
          = <<"current_weather", "current_weather", "forecast", "forecast">>

====
